---- MODULE Spec2Model ----
(***************************************************************************)
(* The ESP32 radio server (server.py): a process-wide catalog SONGS and    *)
(* the three Flask handlers get_song, list_stations and health that read   *)
(* it.  Clients send GET requests concurrently; the server handles each in *)
(* one handler call and the client then reads the response.                *)
(*                                                                         *)
(* Text that the code inspects character by character (the value of the    *)
(* station query parameter) is a sequence of one-character strings; text   *)
(* that the code only produces (JSON keys, messages) is a string.          *)
(***************************************************************************)
EXTENDS Integers, Sequences, FiniteSets, TLC

\* ---------------------------------------------------------------- bounds
\* Number of clients with a request in flight at the same time.
NumClients == 2
\* Station numbers the clients format into a request: -MaxAbs .. MaxAbs.
MaxAbs == 10
\* Catalogs of SpecCatalog: the catalog of server.py with at most this many
\* entries left out.
MaxMissing == 1

Clients == 1..NumClients

\* ------------------------------------------------------------ the catalog
DefaultSONGS ==
    [station \in 0..9 |->
       CASE station = 0 ->
              [name |-> "C Major Scale",
               frequencies |-> <<262, 294, 330, 349, 392, 440, 494, 523>>,
               durations |-> <<500, 500, 500, 500, 500, 500, 500, 500>>]
         [] station = 1 ->
              [name |-> "Twinkle Twinkle Little Star",
               frequencies |-> <<262, 262, 392, 392, 440, 440, 392, 349, 349,
                                 330, 330, 294, 294, 262>>,
               durations |-> <<500, 500, 500, 500, 500, 500, 1000, 500, 500,
                               500, 500, 500, 500, 1000>>]
         [] station = 2 ->
              [name |-> "Happy Birthday",
               frequencies |-> <<262, 262, 294, 262, 349, 330, 262, 262, 294,
                                 262, 392, 349, 262, 262, 523, 440, 349, 330,
                                 294>>,
               durations |-> <<250, 250, 500, 500, 500, 1000, 250, 250, 500,
                               500, 500, 1000, 250, 250, 500, 500, 500, 500,
                               1000>>]
         [] station = 3 ->
              [name |-> "Jingle Bells",
               frequencies |-> <<330, 330, 330, 330, 330, 330, 330, 392, 262,
                                 294, 330, 349, 349, 349, 349, 349, 330, 330,
                                 330, 294, 294, 330, 294, 392>>,
               durations |-> <<500, 500, 1000, 500, 500, 1000, 500, 500, 500,
                               500, 2000, 500, 500, 500, 500, 500, 500, 500,
                               250, 250, 500, 500, 500, 500>>]
         [] station = 4 ->
              [name |-> "Mario Theme",
               frequencies |-> <<659, 659, 0, 659, 0, 523, 659, 0, 784, 0,
                                 392, 0, 523, 0, 392, 0, 330, 0, 440, 0,
                                 494, 0, 466, 0, 392, 0, 659, 0, 784, 0,
                                 880, 0, 698, 0, 784, 0, 659, 0, 523, 0,
                                 587, 0, 494>>,
               durations |-> <<150, 300, 150, 300, 300, 300, 300, 300, 300,
                               300, 300, 150, 300, 150, 300, 300, 300, 300,
                               300, 150, 300, 150, 300, 300, 300, 300, 300,
                               300, 300, 300, 300, 300, 300, 150, 300, 150,
                               300, 300, 300, 300, 300, 300, 300>>]
         [] station = 5 ->
              [name |-> "Star Wars Theme",
               frequencies |-> <<440, 440, 440, 349, 523, 440, 349, 523, 440,
                                 659, 659, 659, 698, 523, 415, 349, 523, 440>>,
               durations |-> <<500, 500, 500, 350, 150, 500, 350, 150, 650,
                               500, 500, 500, 350, 150, 500, 350, 150, 650>>]
         [] station = 6 ->
              [name |-> "Fur Elise",
               frequencies |-> <<659, 622, 659, 622, 659, 494, 587, 523, 440,
                                 0, 262, 330, 440, 494, 0, 330, 415, 494,
                                 523, 0, 330, 440, 523, 587>>,
               durations |-> <<200, 200, 200, 200, 200, 200, 200, 200, 400,
                               200, 200, 200, 200, 400, 200, 200, 200, 200,
                               400, 200, 200, 200, 200, 400>>]
         [] station = 7 ->
              [name |-> "Ode to Joy",
               frequencies |-> <<392, 392, 440, 392, 523, 494, 392, 392, 440,
                                 392, 349, 330, 392, 392, 440, 392, 523, 494,
                                 440, 349, 349, 330, 294, 262>>,
               durations |-> <<500, 500, 500, 500, 500, 1000, 500, 500, 500,
                               500, 500, 1000, 500, 500, 500, 500, 500, 1000,
                               500, 500, 500, 500, 500, 1000>>]
         [] station = 8 ->
              [name |-> "Canon in D",
               frequencies |-> <<294, 330, 349, 392, 440, 392, 349, 330, 294,
                                 330, 349, 392, 440, 494, 523, 494, 440, 392>>,
               durations |-> <<600, 600, 600, 600, 600, 600, 600, 600, 1200,
                               600, 600, 600, 600, 600, 600, 600, 600, 1200>>]
         [] station = 9 ->
              [name |-> "Chromatic Scale",
               frequencies |-> <<262, 277, 294, 311, 330, 349, 370, 392, 415,
                                 440, 466, 494, 523>>,
               durations |-> <<400, 400, 400, 400, 400, 400, 400, 400, 400, 400,
                               400, 400, 400>>]]

\* ------------------------------------------------------- text conversions
Digits == <<"0", "1", "2", "3", "4", "5", "6", "7", "8", "9">>

IsDigit(ch) == \E d \in 1..10 : Digits[d] = ch

DigitValue(ch) == (CHOOSE d \in 1..10 : Digits[d] = ch) - 1

\* str(n) of Python, as characters: the decimal digits, most significant
\* first, after a "-" for a negative number.
RECURSIVE nat_chars(_)
nat_chars(n) ==
    IF n < 10 THEN <<Digits[n + 1]>>
    ELSE Append(nat_chars(n \div 10), Digits[(n % 10) + 1])

str_chars(n) == IF n < 0 THEN <<"-">> \o nat_chars(-n) ELSE nat_chars(n)

RECURSIVE join(_)
join(chars) == IF chars = <<>> THEN "" ELSE Head(chars) \o join(Tail(chars))

str(n) == join(str_chars(n))

\* Absence of a value (Python's None) is the empty sequence and a value v
\* is <<v>>.
None == <<>>
Some(v) == <<v>>

IsSpace(ch) == ch = " "

RECURSIVE lstrip(_)
lstrip(chars) ==
    IF chars # <<>> /\ IsSpace(Head(chars)) THEN lstrip(Tail(chars)) ELSE chars

RECURSIVE rstrip(_)
rstrip(chars) ==
    IF chars # <<>> /\ IsSpace(chars[Len(chars)])
    THEN rstrip(SubSeq(chars, 1, Len(chars) - 1))
    ELSE chars

\* A reading that stops at the first character that is no digit, as C's
\* atoi does, instead of rejecting the text.
RECURSIVE scan_digits_prefix(_, _, _)
scan_digits_prefix(chars, prev, acc) ==
    IF chars = <<>> THEN (IF prev = "digit" THEN Some(acc) ELSE None)
    ELSE IF IsDigit(Head(chars))
         THEN scan_digits_prefix(Tail(chars), "digit", 10 * acc + DigitValue(Head(chars)))
    ELSE IF prev = "digit" THEN Some(acc)
    ELSE None

\* The digits of an integer literal, read left to right: prev is "start"
\* before the first character, "digit" after a digit and "underscore"
\* after an underscore; acc is the value read so far.  None for a
\* character that is no digit, and for an underscore that does not stand
\* between two digits.
RECURSIVE scan_digits(_, _, _)
scan_digits(chars, prev, acc) ==
    IF chars = <<>> THEN (IF prev = "digit" THEN Some(acc) ELSE None)
    ELSE IF IsDigit(Head(chars))
         THEN scan_digits(Tail(chars), "digit", 10 * acc + DigitValue(Head(chars)))
    ELSE IF Head(chars) = "_" /\ prev = "digit"
         THEN scan_digits(Tail(chars), "underscore", acc)
    ELSE None

\* int(text) of Python in base 10: None stands for the ValueError.
py_int(text) ==
    LET s == rstrip(lstrip(text))
        signed == s # <<>> /\ Head(s) \in {"+", "-"}
        body == IF signed THEN Tail(s) ELSE s
        magnitude == scan_digits(body, "start", 0)
    IN  IF magnitude = None THEN None
        ELSE IF signed /\ Head(s) = "-" THEN Some(-magnitude[1])
        ELSE magnitude

\* request.args.get('station', type=int): args is the list of values the
\* query string gives for station.  The first value is converted; a
\* missing key and a ValueError of the conversion both give the default,
\* None.
args_get_int(args) == IF args = <<>> THEN None ELSE py_int(Head(args))

\* ------------------------------------------------------------- responses
\* A response is the pair Flask sends: the HTTP status and the JSON body.
\* jsonify of a dict whose keys are strings keeps the keys and the values.
Response(status, body) == [status |-> status, body |-> body]

\* json.dumps turns the integer keys of a dict into the strings str(key).
jsonify_int_keys(d) ==
    [key \in {str(k) : k \in DOMAIN d} |->
        d[CHOOSE k \in DOMAIN d : str(k) = key]]

\* --------------------------------------------------------------- handlers
\* jsonify({"error": message}), status: an error object and its status.
error_status_forgotten(message, status) == Response(200, [error |-> message])

error_response(message, status) == Response(status, [error |-> message])

\* The range test of get_song: station < 0 or station > 9.
out_of_range_excluding_9(station) == station < 0 \/ station >= 9

out_of_range_including_10(station) == station < 0 \/ station > 10

out_of_range(station) == station < 0 \/ station > 9

\* The success response of get_song: only the frequencies and the
\* durations of the song, not its name.  A song without one of the two
\* raises KeyError, which the handler reports as 500 with str(e).
song_response_without_rests(song_data) ==
    Response(200, [frequencies |-> SelectSeq(song_data["frequencies"], LAMBDA f : f # 0),
                   durations |-> song_data["durations"]])

song_response(song_data) ==
    IF "frequencies" \notin DOMAIN song_data
    THEN error_response("'frequencies'", 500)
    ELSE IF "durations" \notin DOMAIN song_data
    THEN error_response("'durations'", 500)
    ELSE Response(200, [frequencies |-> song_data["frequencies"],
                        durations |-> song_data["durations"]])

\* get_song: the handler of GET /song, on the catalog songs and the values
\* args of the station parameter.
get_song_unchecked_lookup(songs, args) ==
    LET station == args_get_int(args) IN
    IF station = None
    THEN error_response("Missing station parameter", 400)
    ELSE IF out_of_range(station[1])
    THEN error_response("Station must be between 0 and 9", 400)
    ELSE IF station[1] \notin DOMAIN songs
    THEN error_response("'NoneType' object is not subscriptable", 500)
    ELSE song_response(songs[station[1]])

get_song(songs, args) ==
    LET station == args_get_int(args) IN
    IF station = None
    THEN error_response("Missing station parameter", 400)
    ELSE IF out_of_range(station[1])
    THEN error_response("Station must be between 0 and 9", 400)
    ELSE IF station[1] \notin DOMAIN songs
    THEN error_response("Station " \o str(station[1]) \o " not found", 404)
    ELSE song_response(songs[station[1]])

\* list_stations: the handler of GET /stations.
list_stations_whole_songs(songs) == Response(200, jsonify_int_keys(songs))

list_stations(songs) ==
    LET stations_info == [station \in DOMAIN songs |-> [name |-> songs[station]["name"]]]
    IN  Response(200, jsonify_int_keys(stations_info))

\* health: the handler of GET /health.
health_highest_station(songs) ==
    Response(200, [status |-> "ok",
                   stations |-> CHOOSE m \in DOMAIN songs : \A k \in DOMAIN songs : k <= m])

health(songs) ==
    Response(200, [status |-> "ok", stations |-> Cardinality(DOMAIN songs)])

\* --------------------------------------------------------------- requests
\* What a client puts after "station=": a number it formats, as the test
\* client does, or text typed by hand.
OddTexts ==
    { <<>>, <<"a">>, <<"a", "b", "c">>, <<"1", "a">>, <<"-">>, <<"+">>,
      <<"+", "5">>, <<"-", "0">>, <<" ", "4">>, <<"4", " ">>, <<" ">>,
      <<"0", "7">>, <<"0", "1", "0">>, <<"1", ".", "5">>, <<"1", "_", "0">>,
      <<"_", "1">>, <<"1", "_">>, <<"1", "_", "_", "0">>, <<"-", "-", "1">>,
      <<"-", " ", "1">>, <<"1", " ", "0">>, <<"1", "e", "1">> }

StationTexts == {str_chars(n) : n \in (-MaxAbs)..MaxAbs} \cup OddTexts

SongRequests ==
    {[path |-> "/song", args |-> a] : a \in {<<>>} \cup {<<t>> : t \in StationTexts}}

Requests ==
    SongRequests \cup {[path |-> "/stations", args |-> <<>>],
                       [path |-> "/health", args |-> <<>>]}

NoRequest == [path |-> "", args |-> <<>>]
NoResponse == [status |-> 0, body |-> <<>>]

\* ------------------------------------------------------------------ state
VARIABLES
    SONGS,      \* the catalog, a module-level dict of server.py
    pc,         \* per client: "idle", "waiting" (request sent) or "done"
    request,    \* per client: the request in flight or answered
    response    \* per client: the response received

vars == <<SONGS, pc, request, response>>

Init ==
    /\ SONGS = DefaultSONGS
    /\ pc = [c \in Clients |-> "idle"]
    /\ request = [c \in Clients |-> NoRequest]
    /\ response = [c \in Clients |-> NoResponse]

\* The client sends a GET request.
SendRequest(c, req) ==
    /\ pc[c] = "idle"
    /\ pc' = [pc EXCEPT ![c] = "waiting"]
    /\ request' = [request EXCEPT ![c] = req]
    /\ UNCHANGED <<SONGS, response>>

Answer(c, resp) ==
    /\ pc' = [pc EXCEPT ![c] = "done"]
    /\ response' = [response EXCEPT ![c] = resp]
    /\ UNCHANGED request

\* get_song taking the entry out of the catalog (SONGS.pop) instead of
\* reading it (SONGS.get).
GetSong_pop(c) ==
    /\ pc[c] = "waiting"
    /\ request[c].path = "/song"
    /\ Answer(c, get_song(SONGS, request[c].args))
    /\ LET station == args_get_int(request[c].args)
           popped == IF station # None /\ ~out_of_range(station[1])
                     THEN {station[1]} ELSE {}
       IN  SONGS' = [s \in DOMAIN SONGS \ popped |-> SONGS[s]]

\* The server runs get_song for the request of client c.
GetSong(c) ==
    /\ pc[c] = "waiting"
    /\ request[c].path = "/song"
    /\ Answer(c, get_song(SONGS, request[c].args))
    /\ SONGS' = SONGS

\* list_stations cutting the songs of the catalog down to their names in
\* place instead of building new objects.
ListStations_in_place(c) ==
    /\ pc[c] = "waiting"
    /\ request[c].path = "/stations"
    /\ Answer(c, list_stations(SONGS))
    /\ SONGS' = [s \in DOMAIN SONGS |-> [name |-> SONGS[s]["name"]]]

\* The server runs list_stations for the request of client c.
ListStations(c) ==
    /\ pc[c] = "waiting"
    /\ request[c].path = "/stations"
    /\ Answer(c, list_stations(SONGS))
    /\ SONGS' = SONGS

\* The server runs health for the request of client c.
Health(c) ==
    /\ pc[c] = "waiting"
    /\ request[c].path = "/health"
    /\ Answer(c, health(SONGS))
    /\ SONGS' = SONGS

\* The client has read the response and is free to send the next request.
ReadResponse(c) ==
    /\ pc[c] = "done"
    /\ pc' = [pc EXCEPT ![c] = "idle"]
    /\ request' = [request EXCEPT ![c] = NoRequest]
    /\ response' = [response EXCEPT ![c] = NoResponse]
    /\ UNCHANGED SONGS

Next ==
    \/ \E c \in Clients, req \in Requests : SendRequest(c, req)
    \/ \E c \in Clients : GetSong(c)
    \/ \E c \in Clients : ListStations(c)
    \/ \E c \in Clients : Health(c)
    \/ \E c \in Clients : ReadResponse(c)

Spec == Init /\ [][Next]_vars

TypeOK ==
    /\ DOMAIN SONGS \subseteq 0..9
    /\ \A c \in Clients :
         /\ pc[c] \in {"idle", "waiting", "done"}
         /\ pc[c] = "idle" => request[c] = NoRequest /\ response[c] = NoResponse
         /\ pc[c] # "idle" => request[c] \in Requests
         /\ pc[c] = "waiting" => response[c] = NoResponse
         /\ pc[c] = "done" => response[c].status \in {200, 400, 404, 500}

\* ----------------------------------------- get_song on any catalog
\* get_song reads the catalog it is given.  SpecCatalog runs the handlers,
\* for one client, on the catalog of server.py with up to MaxMissing entries
\* left out, which is how the lookup of an entry can fail.
Catalogs ==
    {[station \in (0..9) \ missing |-> DefaultSONGS[station]] :
        missing \in {m \in SUBSET (0..9) : Cardinality(m) <= MaxMissing}}

InitCatalog ==
    /\ SONGS \in Catalogs
    /\ pc = [c \in Clients |-> "idle"]
    /\ request = [c \in Clients |-> NoRequest]
    /\ response = [c \in Clients |-> NoResponse]

NextCatalog ==
    \/ \E req \in Requests : SendRequest(1, req)
    \/ GetSong(1)
    \/ ListStations(1)
    \/ Health(1)
    \/ ReadResponse(1)

SpecCatalog == InitCatalog /\ [][NextCatalog]_vars

\* ------------------------------------------------ what the claims refer to
\* The integer a station text stands for, written down independently of
\* py_int: the numbers the clients format, and by hand the texts of
\* OddTexts that Python's int() accepts; None for every other text and for
\* a missing parameter.
OddTextValues ==
    { <<<<"+", "5">>, 5>>, <<<<"-", "0">>, 0>>, <<<<" ", "4">>, 4>>,
      <<<<"4", " ">>, 4>>, <<<<"0", "7">>, 7>>, <<<<"0", "1", "0">>, 10>>,
      <<<<"1", "_", "0">>, 10>> }

StationOf(args) ==
    IF args = <<>> THEN None
    ELSE IF \E n \in (-MaxAbs)..MaxAbs : str_chars(n) = args[1]
         THEN Some(CHOOSE n \in (-MaxAbs)..MaxAbs : str_chars(n) = args[1])
    ELSE IF \E p \in OddTextValues : p[1] = args[1]
         THEN Some((CHOOSE p \in OddTextValues : p[1] = args[1])[2])
    ELSE None

StationKeys == <<"0", "1", "2", "3", "4", "5", "6", "7", "8", "9">>

SongDone(c) == pc[c] = "done" /\ request[c].path = "/song"
StationsDone(c) == pc[c] = "done" /\ request[c].path = "/stations"
HealthDone(c) == pc[c] = "done" /\ request[c].path = "/health"

InRange(args) == StationOf(args) # None /\ StationOf(args)[1] \in 0..9
OutOfRange(args) == StationOf(args) # None /\ StationOf(args)[1] \notin 0..9

MissingError == Response(400, [error |-> "Missing station parameter"])
RangeError == Response(400, [error |-> "Station must be between 0 and 9"])

\* C1: every get_song for a station id in [0, 9] on the default catalog
\* answers 200 with frequencies and durations of equal, non-zero length and
\* strictly positive durations.
C1_ValidStationPlayable ==
    \A c \in Clients :
        SongDone(c) /\ InRange(request[c].args) =>
            /\ response[c].status = 200
            /\ DOMAIN response[c].body = {"frequencies", "durations"}
            /\ Len(response[c].body.frequencies) = Len(response[c].body.durations)
            /\ Len(response[c].body.frequencies) > 0
            /\ \A i \in 1..Len(response[c].body.durations) :
                   response[c].body.durations[i] > 0

C1_Witness ==
    \E c \in Clients :
        /\ SongDone(c)
        /\ request[c].args = <<<<"4">>>>
        /\ response[c].status = 200
        /\ Len(response[c].body.durations) = 43

\* C2: get_song for a station parameter that is an integer outside [0, 9]
\* answers 400 with the range-violation error object, never song data.
C2_OutOfRangeRejected ==
    \A c \in Clients :
        SongDone(c) /\ OutOfRange(request[c].args) => response[c] = RangeError

C2_Witness ==
    /\ \E c \in Clients :
         SongDone(c) /\ request[c].args = <<<<"1", "0">>>> /\ response[c] = RangeError
    /\ \E c \in Clients :
         SongDone(c) /\ request[c].args = <<<<"-", "1">>>> /\ response[c] = RangeError

\* C3: get_song with the station parameter absent, or present but no
\* integer, answers 400 with the missing-parameter error object (so never
\* the range-violation message, a 404 or a 500).
C3_MissingOrUnparseable ==
    \A c \in Clients :
        SongDone(c) /\ StationOf(request[c].args) = None =>
            /\ response[c] = MissingError
            /\ response[c] # RangeError
            /\ response[c].status \notin {404, 500}

C3_Witness ==
    /\ \E c \in Clients :
         SongDone(c) /\ request[c].args = <<>> /\ response[c] = MissingError
    /\ \E c \in Clients :
         SongDone(c) /\ request[c].args = <<<<"a", "b", "c">>>> /\ response[c] = MissingError

\* C4: the payload of a successful get_song has exactly the fields
\* frequencies and durations, each equal to that of the catalog entry of
\* the requested station, rests (frequency 0) included, and has no name.
C4_PayloadVerbatim ==
    \A c \in Clients :
        SongDone(c) /\ response[c].status = 200 =>
            /\ InRange(request[c].args)
            /\ LET station == StationOf(request[c].args)[1]
                   body == response[c].body
               IN  /\ station \in DOMAIN SONGS
                   /\ DOMAIN body = {"frequencies", "durations"}
                   /\ "name" \notin DOMAIN body
                   /\ body.frequencies = SONGS[station].frequencies
                   /\ body.durations = SONGS[station].durations
                   /\ station = 0 =>
                        body = [frequencies |-> <<262, 294, 330, 349, 392, 440, 494, 523>>,
                                durations |-> <<500, 500, 500, 500, 500, 500, 500, 500>>]
                   /\ station = 4 =>
                        /\ Len(body.frequencies) = 43
                        /\ body.frequencies[3] = 0
                        /\ Cardinality({i \in 1..43 : body.frequencies[i] = 0}) = 20

C4_Witness ==
    /\ \E c \in Clients :
         /\ SongDone(c)
         /\ request[c].args = <<<<"0">>>>
         /\ response[c].body.frequencies[8] = 523
    /\ \E c \in Clients :
         /\ SongDone(c)
         /\ request[c].args = <<<<" ", "4">>>>
         /\ response[c].status = 200
         /\ response[c].body.frequencies[3] = 0

\* C5: list_stations always answers 200 with a mapping whose keys are
\* exactly the station ids of the catalog as strings, each value holding
\* only the name of that station; for the default catalog these are the 10
\* keys "0" to "9", each with a non-empty name.
C5_StationsListing ==
    \A c \in Clients :
        StationsDone(c) =>
            /\ response[c].status = 200
            /\ DOMAIN response[c].body = {StationKeys[s + 1] : s \in DOMAIN SONGS}
            /\ \A s \in DOMAIN SONGS :
                   /\ DOMAIN response[c].body[StationKeys[s + 1]] = {"name"}
                   /\ response[c].body[StationKeys[s + 1]].name = SONGS[s].name
            /\ SONGS = DefaultSONGS =>
                   /\ DOMAIN response[c].body =
                          {"0", "1", "2", "3", "4", "5", "6", "7", "8", "9"}
                   /\ Cardinality(DOMAIN response[c].body) = 10
                   /\ \A key \in DOMAIN response[c].body :
                          response[c].body[key].name # ""

C5_Witness ==
    /\ StationsDone(1)
    /\ SONGS = DefaultSONGS
    /\ Cardinality(DOMAIN response[1].body) = 10
    /\ response[1].body["4"] = [name |-> "Mario Theme"]

\* C6: health always answers 200 with status "ok" and the number of
\* entries of the catalog, 10 for the default catalog, after any sequence
\* of requests.
C6_Health ==
    \A c \in Clients :
        HealthDone(c) =>
            /\ response[c] = Response(200, [status |-> "ok", stations |-> 10])
            /\ response[c].body.stations = Cardinality(DOMAIN SONGS)

C6_Witness ==
    \E c, d \in Clients :
        /\ HealthDone(c)
        /\ response[c].body.stations = 10
        /\ SongDone(d)

\* C7: two get_song calls with the same station input receive the same
\* status and body, whatever was served before or between them.
C7_Deterministic ==
    \A c, d \in Clients :
        SongDone(c) /\ SongDone(d) /\ request[c] = request[d] =>
            response[c] = response[d]

C7_Witness ==
    \E c, d \in Clients :
        /\ c # d
        /\ SongDone(c) /\ SongDone(d)
        /\ request[c] = request[d]
        /\ response[c].status = 200

\* C8: the catalog is never mutated: in every state reached by any
\* interleaving of get_song, list_stations and health requests, failing or
\* not, it equals its value at process start.
C8_CatalogImmutable == SONGS = DefaultSONGS

C8_Witness ==
    \E c, d \in Clients :
        /\ SongDone(c) /\ response[c].status = 400
        /\ StationsDone(d) /\ response[d].status = 200
        /\ SONGS = DefaultSONGS

\* C9: every get_song response is either a complete song payload (200,
\* frequencies and durations, no error) or an error object (400, 404 or
\* 500, an error field and no song data), never a mix.
C9_NoPartialResponse ==
    \A c \in Clients :
        SongDone(c) =>
            \/ /\ response[c].status = 200
               /\ DOMAIN response[c].body = {"frequencies", "durations"}
            \/ /\ response[c].status \in {400, 404, 500}
               /\ DOMAIN response[c].body = {"error"}

C9_Witness ==
    \E c, d \in Clients :
        /\ SongDone(c) /\ response[c].status = 200
        /\ SongDone(d) /\ response[d] = RangeError

\* C10: get_song for a station in [0, 9] that has no entry in the catalog
\* answers 404 with the error "Station <n> not found" naming the station;
\* on the fully populated default catalog no request is answered 404.
C10_NotFound ==
    /\ SongDone(1) /\ InRange(request[1].args)
          /\ StationOf(request[1].args)[1] \notin DOMAIN SONGS =>
         response[1] =
             Response(404, [error |-> "Station "
                                      \o StationKeys[StationOf(request[1].args)[1] + 1]
                                      \o " not found"])
    /\ SONGS = DefaultSONGS => \A c \in Clients : response[c].status # 404

C10_Witness ==
    /\ SongDone(1)
    /\ 7 \notin DOMAIN SONGS
    /\ request[1].args = <<<<"0", "7">>>>
    /\ response[1] = Response(404, [error |-> "Station 7 not found"])

====
